---- MODULE Spec2Model ----
(***************************************************************************)
(* Model of the multi-timer engine of src-tauri/src/timer.rs.              *)
(*                                                                         *)
(* The registry (TimerState) is a map id -> TimerInstance behind one       *)
(* std::sync::Mutex.  Every public operation but resume_timer is a single  *)
(* critical section and is one action here; resume_timer releases the lock *)
(* between its check and its call of start_timer and is two actions.  The  *)
(* task spawned by start_timer is a process of its own: it is suspended at *)
(* the select! (pc "wait"), about to take the lock for the first critical  *)
(* section of a tick (pc "tick"), back at the select! inside the same poll *)
(* (pc "select"), about to take the lock for the completion section (pc    *)
(* "complete"), or finished (pc "done").  JoinHandle::abort only takes     *)
(* effect at an await point, that is at pc "wait" and when the select!     *)
(* finds no branch ready; a task that is past its await runs on.           *)
(*                                                                         *)
(* Option<T> values are sequences of length at most one.                   *)
(***************************************************************************)
EXTENDS Integers, Sequences, FiniteSets, TLC

\* ---------------------------------------------------------------- bounds
\* Number of scheduler tasks start_timer may spawn in one behaviour.
MaxTasks == 2
\* Number of times the clock advances in one behaviour.
MaxClock == 2
\* Number of calls the callers make in one behaviour: on one timer id (Spec)
\* and on several (SpecMulti).
MaxCalls == 4
MaxCallsMulti == 3
\* ... and from the registry of InitPair
MaxCallsPair == 2
\* The 64-bit integers of the source are scaled down to WordBits bits: the
\* checker's integers are 32 bits wide.  Every duration of the model is far
\* below 2^(WordBits-1), so the casts wrap exactly where the 64-bit ones do.
WordBits == 16

\* Length of one tick of tokio::time::interval, in milliseconds.
Period == 1000
\* The clock advances by half a tick period at a time.
ClockStep == Period \div 2

Ids == {"t1", "t2"}
Names == {"Work", "Rest"}
\* The durations the callers pass to create_timer, a usual one first
DurationList == << 1000, 0, -500 >>
Durations == { DurationList[k] : k \in DOMAIN DurationList }

ErrDuplicate == "Timer with this ID already exists"
ErrNotFound == "Timer not found"
Ok == "Ok"

\* ------------------------------------------------------- numeric helpers
Modulus == 2 ^ WordBits

\* `x as u64`
AsU64(x) == x % Modulus

\* A cast that keeps the unsigned value: no wrap to a negative number
AsI64Unsigned(x) == x % Modulus

\* `x as i64` (of an unsigned value)
AsI64(x) == LET m == x % Modulus IN IF 2 * m >= Modulus THEN m - Modulus ELSE m

Max(a, b) == IF a >= b THEN a ELSE b

\* Instant::saturating_duration_since, in milliseconds
SaturatingDurationSince(t, n) == IF t >= n THEN t - n ELSE 0

\* Option helpers
None == << >>
Some(x) == << x >>
IsSome(o) == Len(o) = 1

VARIABLES
    timers,     \* MultiTimerInner.timers: the ids present -> TimerInstance
    tasks,      \* the tasks spawned so far, in spawn order
    now,        \* the clock (Instant::now, Utc::now), in milliseconds
    resuming,   \* ids of resume_timer calls between their two critical sections
    emitted,    \* the notifications the last action emitted, in order
    ret,        \* the call that returned in the last action, and its result
    ids,        \* the timer ids the callers pass (fixed in a behaviour)
    callsLeft,  \* how many more calls the callers make
    created,    \* the ids created with success and not deleted since
    done        \* per id, the number of timer:done notifications emitted

vars == << timers, tasks, now, resuming, emitted, ret, ids, callsLeft,
           created, done >>

\* ------------------------------------------------------------- records
\* A create_timer that starts the countdown value at zero instead of at the
\* configured duration
NewTimerInstanceNoRemaining(id, name, duration_ms) ==
    [ id |-> id, name |-> name, duration_ms |-> duration_ms,
      remaining_ms |-> 0, target_at |-> None, runner |-> None,
      cancel_tx |-> None, running |-> FALSE, completed |-> FALSE,
      created_at |-> now ]

\* TimerInstance as create_timer builds it
NewTimerInstance(id, name, duration_ms) ==
    [ id |-> id, name |-> name, duration_ms |-> duration_ms,
      remaining_ms |-> duration_ms, target_at |-> None, runner |-> None,
      cancel_tx |-> None, running |-> FALSE, completed |-> FALSE,
      created_at |-> now ]

\* The Timer snapshot create_timer returns
CreatedTimer(id, name, duration_ms) ==
    [ id |-> id, name |-> name, duration_ms |-> duration_ms,
      remaining_ms |-> duration_ms, running |-> FALSE, completed |-> FALSE,
      created_at |-> now ]

\* The Timer snapshot get_all_timers makes of a record
Timer(instance) ==
    [ id |-> instance.id, name |-> instance.name,
      duration_ms |-> instance.duration_ms,
      remaining_ms |-> instance.remaining_ms,
      running |-> instance.running, completed |-> instance.completed,
      created_at |-> instance.created_at ]

\* The MutexGuard that is alive where app.emit is called: `inner`, which an
\* operation holds from its first line to its return, or `guard`, which a
\* task (by > 0) holds to the end of the block of its critical section.
\* ("none" would be an emit after the guard is dropped.)
GuardAtEmit(by) == IF by = 0 THEN "inner" ELSE "guard"

\* TimerTickPayload, emitted as "timer:tick".  by is the emitting task (0
\* for an operation), cancelledBy the operation that had cancelled that task
\* and returned before the emission ("none" if there is none), found
\* what target_at the tick found ("none" for an operation), and guard the
\* lock guard held during the emit.
TimerTickPayload(timer, by, cancelledBy, found) ==
    [ event |-> "timer:tick", timer_id |-> timer.id,
      remaining_ms |-> timer.remaining_ms, duration_ms |-> timer.duration_ms,
      running |-> timer.running, by |-> by, cancelledBy |-> cancelledBy,
      found |-> found, guard |-> GuardAtEmit(by) ]

\* TimerDonePayload, emitted as "timer:done" (finished_at is the clock)
TimerDonePayload(id, by, cancelledBy, found) ==
    [ event |-> "timer:done", timer_id |-> id, finished_at |-> now,
      by |-> by, cancelledBy |-> cancelledBy, found |-> found,
      guard |-> GuardAtEmit(by) ]

\* What a call returned: its result and the snapshots it carried
Return(op, id, result, value) ==
    [ op |-> op, id |-> id, result |-> result, value |-> value ]

NoCall == Return("none", "none", Ok, {})

\* ---------------------------------------------------------------- tasks
\* A task as tokio::spawn creates it: not polled yet, so its interval does
\* not exist (deadline None); rx is the receiving end of the oneshot.
NewTask(id) ==
    [ id |-> id, pc |-> "wait", rx |-> "pending", aborted |-> FALSE,
      deadline |-> None, found |-> "none", cancelledBy |-> "none" ]

\* A task that has ended: its locals are gone
Finished(task) ==
    [ id |-> task.id, pc |-> "done", rx |-> "closed", aborted |-> FALSE,
      deadline |-> None, found |-> "none", cancelledBy |-> "none" ]

TaskIds == 1 .. Len(tasks)

Live(t) == tasks[t].pc # "done"

\* tx.send(()) on the sender of task t, and dropping that sender
SendCancel(task) == IF task.pc = "done" THEN task ELSE [ task EXCEPT !.rx = "sent" ]
DropSender(task) ==
    IF task.pc = "done" \/ task.rx # "pending" THEN task
    ELSE [ task EXCEPT !.rx = "closed" ]

\* handle.abort(): a task suspended at its await is dropped at once; one
\* that is being polled only has the flag set, and runs on to its next await
Abort(task) ==
    IF task.pc = "done" THEN task
    ELSE IF task.pc = "wait" THEN Finished(task)
    ELSE [ task EXCEPT !.aborted = TRUE ]

\* A cancellation that reaches the task of every timer, not only the task
\* the record refers to
CancelEveryRunner(ts, timer, op) ==
    [ t \in DOMAIN ts |->
        IF ts[t].pc = "done" THEN ts[t]
        ELSE Abort([ SendCancel(ts[t]) EXCEPT !.cancelledBy = op ]) ]

\* `if let Some(tx) = timer.cancel_tx.take() { tx.send(()) }` followed by
\* `if let Some(handle) = timer.runner.take() { handle.abort() }`, done by
\* operation op on the record timer
CancelRunner(ts, timer, op) ==
    [ t \in DOMAIN ts |->
        LET sent == IF IsSome(timer.cancel_tx) /\ timer.cancel_tx[1] = t
                    THEN SendCancel(ts[t]) ELSE ts[t]
            marked == IF sent.pc # "done"
                         /\ ( (IsSome(timer.cancel_tx) /\ timer.cancel_tx[1] = t)
                              \/ (IsSome(timer.runner) /\ timer.runner[1] = t) )
                      THEN [ sent EXCEPT !.cancelledBy = op ] ELSE sent
        IN IF IsSome(timer.runner) /\ timer.runner[1] = t
           THEN Abort(marked) ELSE marked ]

\* ----------------------------------------------------------------- Init
Init ==
    /\ timers = << >>
    /\ tasks = << >>
    /\ now = 0
    /\ resuming = {}
    /\ emitted = << >>
    /\ ret = NoCall
    /\ ids = {"t1"}
    /\ callsLeft = MaxCalls
    /\ created = {}
    /\ done = [ id \in Ids |-> 0 ]

\* The same engine, its callers using every id
InitMulti ==
    /\ timers = << >>
    /\ tasks = << >>
    /\ now = 0
    /\ resuming = {}
    /\ emitted = << >>
    /\ ret = NoCall
    /\ ids = Ids
    /\ callsLeft = MaxCallsMulti
    /\ created = {}
    /\ done = [ id \in Ids |-> 0 ]

\* ----------------------------------------------------------- operations
\* A caller makes one more call
Call ==
    /\ callsLeft > 0
    /\ callsLeft' = callsLeft - 1
    /\ UNCHANGED << now, ids, done >>

\* A create_timer without its test for an existing id
AlreadyExistsNever(id) == FALSE

\* inner.timers.contains_key(&id) of create_timer
AlreadyExists(id) == id \in DOMAIN timers

\* The record of id is found (timers.get, get_mut, remove)
ContainsKey(id) == id \in DOMAIN timers

\* The registry with the record of id replaced (or inserted)
Put(id, timer) ==
    [ k \in DOMAIN timers \cup {id} |-> IF k = id THEN timer ELSE timers[k] ]

\* A delete_timer that does not take the record out of the map
RemoveNothing(id) == timers

\* The registry without the record of id
Remove(id) == [ k \in DOMAIN timers \ {id} |-> timers[k] ]

\* A lookup failure that is swallowed: the call returns Ok
NotFoundReturnsOk(op, timer_id) ==
    /\ ret' = Return(op, timer_id, Ok, {})
    /\ emitted' = << >>
    /\ UNCHANGED << timers, tasks >>

\* `.ok_or("Timer not found")?`, and delete_timer's else branch: the call
\* returns the error and has touched nothing
NotFound(op, timer_id) ==
    /\ ret' = Return(op, timer_id, ErrNotFound, {})
    /\ emitted' = << >>
    /\ UNCHANGED << timers, tasks >>

create_timer(id, name, duration_ms) ==
    /\ Call
    /\ IF AlreadyExists(id)
       THEN /\ ret' = Return("create_timer", id, ErrDuplicate, {})
            /\ UNCHANGED << timers, created >>
       ELSE /\ timers' = Put(id, NewTimerInstance(id, name, duration_ms))
            /\ ret' = Return("create_timer", id, Ok,
                             { CreatedTimer(id, name, duration_ms) })
            /\ created' = created \cup {id}
    /\ emitted' = << >>
    /\ UNCHANGED << tasks, resuming >>

get_all_timers ==
    /\ Call
    /\ ret' = Return("get_all_timers", "none", Ok,
                     { Timer(timers[k]) : k \in DOMAIN timers })
    /\ emitted' = << >>
    /\ UNCHANGED << timers, tasks, resuming, created >>

delete_timer(timer_id) ==
    /\ Call
    /\ IF ContainsKey(timer_id)
       THEN /\ timers' = Remove(timer_id)
            /\ tasks' = CancelRunner(tasks, timers[timer_id], "delete_timer")
            /\ ret' = Return("delete_timer", timer_id, Ok, {})
            /\ emitted' = << >>
            /\ created' = created \ {timer_id}
       ELSE /\ NotFound("delete_timer", timer_id)
            /\ UNCHANGED created
    /\ UNCHANGED resuming

\* The record start_timer leaves: deadline, running, and the handles of the
\* task it spawns (task)
Started(timer, task) ==
    [ timer EXCEPT !.target_at = Some(now + AsU64(timer.remaining_ms)),
                   !.running = TRUE, !.completed = FALSE,
                   !.cancel_tx = Some(task), !.runner = Some(task) ]

\* The body of start_timer, which resume_timer calls too (op names the
\* caller-facing operation that returns)
StartBody(op, timer_id) ==
    IF ContainsKey(timer_id)
    THEN LET task == Len(tasks) + 1
             timer == Started(timers[timer_id], task)
         IN /\ Len(tasks) < MaxTasks
            /\ timers' = Put(timer_id, timer)
            /\ tasks' = Append(CancelRunner(tasks, timers[timer_id], op),
                               NewTask(timer_id))
            /\ emitted' = << TimerTickPayload(timer, 0, "none", "none") >>
            /\ ret' = Return(op, timer_id, Ok, {})
    ELSE NotFound(op, timer_id)

start_timer(timer_id) ==
    /\ Call
    /\ StartBody("start_timer", timer_id)
    /\ UNCHANGED << resuming, created >>

\* The record pause_timer leaves
Paused(timer) ==
    [ timer EXCEPT !.remaining_ms =
                       IF IsSome(timer.target_at)
                       THEN AsI64(SaturatingDurationSince(timer.target_at[1], now))
                       ELSE timer.remaining_ms,
                   !.target_at = None, !.running = FALSE,
                   !.cancel_tx = None, !.runner = None ]

pause_timer(timer_id) ==
    /\ Call
    /\ IF ~ ContainsKey(timer_id)
       THEN NotFound("pause_timer", timer_id)
       ELSE IF ~ timers[timer_id].running
       THEN /\ ret' = Return("pause_timer", timer_id, Ok, {})
            /\ emitted' = << >>
            /\ UNCHANGED << timers, tasks >>
       ELSE /\ timers' = Put(timer_id, Paused(timers[timer_id]))
            /\ tasks' = CancelRunner(tasks, timers[timer_id], "pause_timer")
            /\ emitted' = << TimerTickPayload(Paused(timers[timer_id]), 0,
                                              "none", "none") >>
            /\ ret' = Return("pause_timer", timer_id, Ok, {})
    /\ UNCHANGED << resuming, created >>

\* A resume_timer that does not look at the running flag: it goes on to
\* start_timer also for a timer that is running
ResumeCheckIgnoresRunning(timer_id) ==
    /\ Call
    /\ IF ~ ContainsKey(timer_id)
       THEN /\ NotFound("resume_timer", timer_id)
            /\ UNCHANGED resuming
       ELSE /\ timer_id \notin resuming
            /\ resuming' = resuming \cup {timer_id}
            /\ ret' = NoCall
            /\ emitted' = << >>
            /\ UNCHANGED << timers, tasks >>
    /\ UNCHANGED created

\* The first critical section of resume_timer: it returns at once for an
\* unknown id and for a running timer; otherwise the lock is released and
\* start_timer is still to be called
ResumeCheck(timer_id) ==
    /\ Call
    /\ IF ~ ContainsKey(timer_id)
       THEN /\ NotFound("resume_timer", timer_id)
            /\ UNCHANGED resuming
       ELSE IF timers[timer_id].running
       THEN /\ ret' = Return("resume_timer", timer_id, Ok, {})
            /\ emitted' = << >>
            /\ UNCHANGED << timers, tasks, resuming >>
       ELSE /\ timer_id \notin resuming
            /\ resuming' = resuming \cup {timer_id}
            /\ ret' = NoCall
            /\ emitted' = << >>
            /\ UNCHANGED << timers, tasks >>
    /\ UNCHANGED created

\* resume_timer's call of start_timer
ResumeStart(timer_id) ==
    /\ timer_id \in resuming
    /\ resuming' = resuming \ {timer_id}
    /\ StartBody("resume_timer", timer_id)
    /\ UNCHANGED << now, ids, callsLeft, created, done >>

\* A reset_timer that forgets to clear the completed flag
ResetKeepsCompleted(timer) ==
    [ timer EXCEPT !.remaining_ms = timer.duration_ms, !.target_at = None,
                   !.running = FALSE,
                   !.cancel_tx = None, !.runner = None ]

\* The record reset_timer leaves
Reset(timer) ==
    [ timer EXCEPT !.remaining_ms = timer.duration_ms, !.target_at = None,
                   !.running = FALSE, !.completed = FALSE,
                   !.cancel_tx = None, !.runner = None ]

reset_timer(timer_id) ==
    /\ Call
    /\ IF ContainsKey(timer_id)
       THEN /\ timers' = Put(timer_id, Reset(timers[timer_id]))
            /\ tasks' = CancelRunner(tasks, timers[timer_id], "reset_timer")
            /\ emitted' = << TimerTickPayload(Reset(timers[timer_id]), 0,
                                              "none", "none") >>
            /\ ret' = Return("reset_timer", timer_id, Ok, {})
       ELSE NotFound("reset_timer", timer_id)
    /\ UNCHANGED << resuming, created >>

\* ------------------------------------------------------- scheduler task
\* What a step of a task leaves alone
TaskFrame ==
    /\ ret' = NoCall
    /\ UNCHANGED << now, resuming, ids, callsLeft, created >>

\* interval.tick() is ready: the first tick of an interval completes at
\* once, the later ones one period after the previous deadline
TickReady(task) ==
    IF IsSome(task.deadline) THEN now >= task.deadline[1] ELSE TRUE

\* The interval's deadline after a tick (MissedTickBehavior::Burst)
NextDeadline(task) ==
    Some((IF IsSome(task.deadline) THEN task.deadline[1] ELSE now) + Period)

\* The receiver resolves: the sender has sent or has been dropped
CancelReady(task) == task.rx # "pending"

\* The task is polled at its await and the tick branch of select! wins
TaskWake(t) ==
    /\ tasks[t].pc = "wait"
    /\ TickReady(tasks[t])
    /\ tasks' = [ tasks EXCEPT ![t].pc = "tick",
                               ![t].deadline = NextDeadline(tasks[t]) ]
    /\ emitted' = << >>
    /\ TaskFrame
    /\ UNCHANGED << timers, done >>

\* The task is polled at its await and the cancel branch of select! wins
TaskCancelled(t) ==
    /\ tasks[t].pc = "wait"
    /\ CancelReady(tasks[t])
    /\ tasks' = [ tasks EXCEPT ![t] = Finished(tasks[t]) ]
    /\ emitted' = << >>
    /\ TaskFrame
    /\ UNCHANGED << timers, done >>

\* `remaining` of the tick: target_at - now as i64, 0 without a deadline
TickRemaining(timer) ==
    IF IsSome(timer.target_at)
    THEN AsI64(SaturatingDurationSince(timer.target_at[1], now))
    ELSE 0

\* The record after the first critical section of a tick
Ticked(timer) == [ timer EXCEPT !.remaining_ms = Max(TickRemaining(timer), 0) ]

\* What the tick found in the record (kept for the notifications' records):
\* no deadline, or a deadline that its test `remaining <= 0` takes as reached
\* or as still ahead
Found(timer) ==
    IF ~ IsSome(timer.target_at) THEN "absent"
    ELSE IF TickRemaining(timer) <= 0 THEN "reached" ELSE "ahead"

\* A tick that completes only below zero: a remaining time of exactly 0
\* goes round the loop once more
AfterTickBelowZero(remaining) == IF remaining < 0 THEN "complete" ELSE "select"

\* Where the tick goes after its first critical section
AfterTick(remaining) == IF remaining <= 0 THEN "complete" ELSE "select"

\* The first critical section of a tick
TaskTick(t) ==
    LET task == tasks[t]
        id == task.id
    IN /\ task.pc = "tick"
       /\ IF ContainsKey(id)
          THEN LET remaining == TickRemaining(timers[id])
               IN /\ timers' = Put(id, Ticked(timers[id]))
                  /\ emitted' = << TimerTickPayload(Ticked(timers[id]), t,
                                      task.cancelledBy, Found(timers[id])) >>
                  /\ tasks' = [ tasks EXCEPT
                                  ![t].pc = AfterTick(remaining),
                                  ![t].found = IF remaining <= 0
                                               THEN Found(timers[id])
                                               ELSE "none" ]
          ELSE /\ tasks' = [ tasks EXCEPT ![t].pc = AfterTick(0),
                                          ![t].found = "deleted" ]
               /\ emitted' = << >>
               /\ UNCHANGED timers
       /\ TaskFrame
       /\ UNCHANGED done

\* A completion section that leaves the deadline in the record
CompletedKeepsTarget(timer) ==
    [ timer EXCEPT !.running = FALSE, !.completed = TRUE, !.cancel_tx = None ]

\* The record after the completion section
Completed(timer) ==
    [ timer EXCEPT !.running = FALSE, !.completed = TRUE,
                   !.target_at = None, !.cancel_tx = None ]

\* `timer.cancel_tx = None` drops the sender the record held
DropCancelTx(ts, timer) ==
    [ u \in DOMAIN ts |->
        IF IsSome(timer.cancel_tx) /\ timer.cancel_tx[1] = u
        THEN DropSender(ts[u]) ELSE ts[u] ]

\* The completion section of a tick (remaining <= 0), then `break`
TaskComplete(t) ==
    LET task == tasks[t]
        id == task.id
    IN /\ task.pc = "complete"
       /\ IF ContainsKey(id)
          THEN /\ timers' = Put(id, Completed(timers[id]))
               /\ emitted' = << TimerDonePayload(id, t, task.cancelledBy,
                                                  task.found) >>
               /\ done' = [ done EXCEPT ![id] = @ + 1 ]
               /\ tasks' = [ DropCancelTx(tasks, timers[id])
                               EXCEPT ![t] = Finished(task) ]
          ELSE /\ tasks' = [ tasks EXCEPT ![t] = Finished(task) ]
               /\ emitted' = << >>
               /\ UNCHANGED << timers, done >>
       /\ TaskFrame

\* Back at select! inside the same poll: the tick branch is ready and wins
TaskSelectTick(t) ==
    /\ tasks[t].pc = "select"
    /\ TickReady(tasks[t])
    /\ tasks' = [ tasks EXCEPT ![t].pc = "tick",
                               ![t].deadline = NextDeadline(tasks[t]) ]
    /\ emitted' = << >>
    /\ TaskFrame
    /\ UNCHANGED << timers, done >>

\* Back at select! inside the same poll: the cancel branch is ready and wins
TaskSelectCancel(t) ==
    /\ tasks[t].pc = "select"
    /\ CancelReady(tasks[t])
    /\ tasks' = [ tasks EXCEPT ![t] = Finished(tasks[t]) ]
    /\ emitted' = << >>
    /\ TaskFrame
    /\ UNCHANGED << timers, done >>

\* Back at select! with no branch ready: the poll returns Pending, and the
\* runtime drops the task if it was aborted meanwhile
TaskSelectPending(t) ==
    /\ tasks[t].pc = "select"
    /\ ~ TickReady(tasks[t])
    /\ ~ CancelReady(tasks[t])
    /\ tasks' = [ tasks EXCEPT ![t] = IF tasks[t].aborted THEN Finished(tasks[t])
                                      ELSE [ tasks[t] EXCEPT !.pc = "wait" ] ]
    /\ emitted' = << >>
    /\ TaskFrame
    /\ UNCHANGED << timers, done >>

\* ---------------------------------------------------------------- clock
Advance ==
    /\ now < MaxClock * ClockStep
    /\ now' = now + ClockStep
    /\ emitted' = << >>
    /\ ret' = NoCall
    /\ UNCHANGED << timers, tasks, resuming, ids, callsLeft, created, done >>

Next ==
    \/ \E id \in ids, name \in Names, k \in DOMAIN DurationList :
          create_timer(id, name, DurationList[k])
    \/ get_all_timers
    \/ \E id \in ids : delete_timer(id)
    \/ \E id \in ids : start_timer(id)
    \/ \E id \in ids : pause_timer(id)
    \/ \E id \in ids : ResumeCheck(id)
    \/ \E id \in ids : ResumeStart(id)
    \/ \E id \in ids : reset_timer(id)
    \/ \E t \in TaskIds : TaskWake(t)
    \/ \E t \in TaskIds : TaskCancelled(t)
    \/ \E t \in TaskIds : TaskTick(t)
    \/ \E t \in TaskIds : TaskComplete(t)
    \/ \E t \in TaskIds : TaskSelectTick(t)
    \/ \E t \in TaskIds : TaskSelectCancel(t)
    \/ \E t \in TaskIds : TaskSelectPending(t)
    \/ Advance

Spec == Init /\ [][Next]_vars

SpecMulti == InitMulti /\ [][Next]_vars

\* Any step of task t
TaskStep(t) ==
    /\ t \in TaskIds
    /\ \/ TaskWake(t)
       \/ TaskCancelled(t)
       \/ TaskTick(t)
       \/ TaskComplete(t)
       \/ TaskSelectTick(t)
       \/ TaskSelectCancel(t)
       \/ TaskSelectPending(t)

\* The last instant the clock reaches by Advance
Horizon == MaxClock * ClockStep

\* A task sleeps until the next tick of its interval
Sleeping(t) ==
    /\ tasks[t].pc \in { "wait", "select" }
    /\ IsSome(tasks[t].deadline)
    /\ tasks[t].deadline[1] > now

\* Time goes on past the horizon for as long as a task sleeps
AdvanceWhileSleeping ==
    /\ now >= Horizon
    /\ \E t \in TaskIds : Sleeping(t)
    /\ now' = now + ClockStep
    /\ emitted' = << >>
    /\ ret' = NoCall
    /\ UNCHANGED << timers, tasks, resuming, ids, callsLeft, created, done >>

NextFair ==
    \/ Next
    \/ AdvanceWhileSleeping

\* The runtime polls every task that can make a step, a caller that has left
\* resume_timer's first block goes on to call start_timer, and time passes.
\* Which branch a select! with both branches ready takes is left open.
Fairness ==
    /\ \A t \in 1 .. MaxTasks : WF_vars(TaskStep(t))
    /\ \A id \in Ids : WF_vars(ResumeStart(id))
    /\ WF_vars(Advance)
    /\ WF_vars(AdvanceWhileSleeping)

SpecFair == Init /\ [][NextFair]_vars /\ Fairness

\* The engine right after create_timer("t1", "Work", 1000),
\* create_timer("t2", "Rest", 0) and start_timer("t1") at clock 0: t1 is
\* running and its task is spawned; the callers use every id
InitPair ==
    /\ now = 0
    /\ timers = [ id \in Ids |->
                    IF id = "t1"
                    THEN Started(NewTimerInstance("t1", "Work", 1000), 1)
                    ELSE NewTimerInstance(id, "Rest", 0) ]
    /\ tasks = << NewTask("t1") >>
    /\ resuming = {}
    /\ emitted = << TimerTickPayload(timers["t1"], 0, "none", "none") >>
    /\ ret = Return("start_timer", "t1", Ok, {})
    /\ ids = Ids
    /\ callsLeft = MaxCallsPair
    /\ created = Ids
    /\ done = [ id \in Ids |-> 0 ]

SpecPair == InitPair /\ [][Next]_vars

\* ====================================================================
\* Properties
\* ====================================================================
CallerOps ==
    { "start_timer", "pause_timer", "resume_timer", "reset_timer",
      "delete_timer" }

\* The tasks spawned for id, and those of them that can still run a
\* critical section on the record of id: a task suspended at its await, one
\* going for the lock, and one at select! that an aborted poll does not end
Launched(id) == { t \in TaskIds : tasks[t].id = id }

CanTouchRecord(t) ==
    CASE tasks[t].pc \in { "wait", "tick", "complete" } -> TRUE
      [] tasks[t].pc = "select" ->
            IF TickReady(tasks[t]) THEN TRUE
            ELSE ~ tasks[t].aborted /\ ~ CancelReady(tasks[t])
      [] OTHER -> FALSE

\* C1: once delete_timer(id) has returned Ok for a running timer, the task
\* that was attached to the timer emits no timer:tick and no timer:done for
\* id any more, also when the id is created again after the delete.
C1_NoNotificationAfterDelete ==
    \A i \in DOMAIN emitted : emitted[i].cancelledBy # "delete_timer"

\* C2: for each timer id at most one task can still read or write the
\* record of the id, and a task that a restarting start_timer has cancelled
\* and aborted performs no further tick on the record.
C2_AtMostOneSchedulerPerId ==
    /\ \A id \in Ids :
          Cardinality({ t \in Launched(id) : CanTouchRecord(t) }) <= 1
    /\ \A i \in DOMAIN emitted : emitted[i].cancelledBy # "start_timer"

\* C3: a task cancelled by a pause_timer, reset_timer or restarting
\* start_timer that has returned never emits timer:done (the completion
\* section, which alone sets completed = true, always emits it).
C3_NoStaleCompletion ==
    \A i \in DOMAIN emitted :
        emitted[i].event = "timer:done" =>
            emitted[i].cancelledBy
                \notin { "pause_timer", "reset_timer", "start_timer" }

\* C4: the timer:done notifications for an id never outnumber the tasks
\* launched for it, and each is emitted by a tick of a run that was not
\* cancelled and that found its deadline reached (never target_at absent).
C4_DoneOncePerNaturalCompletion ==
    /\ \A id \in Ids : done[id] <= Cardinality(Launched(id))
    /\ \A i \in DOMAIN emitted :
          emitted[i].event = "timer:done" =>
              /\ emitted[i].found = "reached"
              /\ emitted[i].cancelledBy = "none"

\* C5: when reset_timer(id) returns Ok the record has remaining_ms =
\* duration_ms, running = false, completed = false and no target_at, and
\* the call has emitted exactly one timer:tick carrying remaining_ms =
\* duration_ms and running = false.
C5_ResetRestores ==
    (ret.op = "reset_timer" /\ ret.result = Ok) =>
        /\ ret.id \in DOMAIN timers
        /\ timers[ret.id].remaining_ms = timers[ret.id].duration_ms
        /\ ~ timers[ret.id].running
        /\ ~ timers[ret.id].completed
        /\ timers[ret.id].target_at = None
        /\ Len(emitted) = 1
        /\ emitted[1].event = "timer:tick"
        /\ emitted[1].timer_id = ret.id
        /\ emitted[1].remaining_ms = timers[ret.id].duration_ms
        /\ emitted[1].running = FALSE

\* reset_timer has returned for a timer that was running with a tick of its
\* task in flight, and whose remaining time had to be restored
C5_Witness ==
    /\ ret.op = "reset_timer"
    /\ ret.result = Ok
    /\ timers[ret.id].duration_ms > 0
    /\ \E t \in TaskIds : tasks[t].cancelledBy = "reset_timer"

\* C6: a step of a scheduler task (or of the clock) does not change
\* remaining_ms, running or completed of a record that is not running.
C6_FrozenWhileNotRunning ==
    [][ ret' = NoCall =>
          \A id \in DOMAIN timers :
              ~ timers[id].running =>
                  /\ id \in DOMAIN timers'
                  /\ timers'[id].remaining_ms = timers[id].remaining_ms
                  /\ timers'[id].running = timers[id].running
                  /\ timers'[id].completed = timers[id].completed ]_vars

\* C7: create_timer with an id that is present returns the DuplicateId
\* error and leaves every record and every task as it was.
C7_DuplicateCreateFails ==
    [][ (ret'.op = "create_timer" /\ ret'.id \in DOMAIN timers) =>
          /\ ret'.result = ErrDuplicate
          /\ ret'.value = {}
          /\ timers' = timers
          /\ tasks' = tasks
          /\ emitted' = << >> ]_vars

\* A duplicate create has failed on a timer that is running
C7_Witness ==
    /\ ret.op = "create_timer"
    /\ ret.result = ErrDuplicate
    /\ timers[ret.id].running
    /\ \E t \in Launched(ret.id) : Live(t)

\* C8: for an id that is not present and a duration D >= 0, create_timer
\* returns Ok with a snapshot remaining_ms = duration_ms = D, not running,
\* not completed, and inserts exactly that record, without deadline or task;
\* no other record changes.
C8_CreateFresh ==
    [][ \A id \in Ids, name \in Names, d \in Durations :
          (d >= 0 /\ id \notin DOMAIN timers /\ create_timer(id, name, d)) =>
              /\ ret'.result = Ok
              /\ ret'.value =
                   { [ id |-> id, name |-> name, duration_ms |-> d,
                       remaining_ms |-> d, running |-> FALSE,
                       completed |-> FALSE, created_at |-> now ] }
              /\ DOMAIN timers' = DOMAIN timers \cup {id}
              /\ timers'[id] =
                   [ id |-> id, name |-> name, duration_ms |-> d,
                     remaining_ms |-> d, target_at |-> None, runner |-> None,
                     cancel_tx |-> None, running |-> FALSE,
                     completed |-> FALSE, created_at |-> now ]
              /\ \A k \in DOMAIN timers : timers'[k] = timers[k]
              /\ tasks' = tasks
              /\ emitted' = << >> ]_vars

\* A create has succeeded beside a record that is running
C8_Witness ==
    /\ ret.op = "create_timer"
    /\ ret.result = Ok
    /\ \E s \in ret.value : s.duration_ms >= 0
    /\ \E k \in DOMAIN timers \ {ret.id} : timers[k].running

\* C9: start_timer, pause_timer, resume_timer, reset_timer and delete_timer
\* called with an id that is not present return the NotFound error, change
\* no record, launch or cancel no task and emit nothing.
C9_UnknownIdNotFound ==
    [][ (ret'.op \in CallerOps /\ ret'.id \notin DOMAIN timers) =>
          /\ ret'.result = ErrNotFound
          /\ timers' = timers
          /\ tasks' = tasks
          /\ emitted' = << >> ]_vars

\* A call has failed with NotFound while another timer is running
C9_Witness ==
    /\ ret.op \in CallerOps
    /\ ret.result = ErrNotFound
    /\ \E k \in DOMAIN timers : timers[k].running

\* C10: the records are exactly those of the ids created and not deleted
\* since; get_all_timers returns one snapshot per such id and changes
\* nothing; only a successful create_timer or delete_timer changes the set
\* of ids present.
C10_ExactlyTheLiveRecords ==
    [][ /\ DOMAIN timers' = created'
        /\ ret'.op = "get_all_timers" =>
              /\ { s.id : s \in ret'.value } = created'
              /\ Cardinality(ret'.value) = Cardinality(created')
              /\ \A s \in ret'.value :
                    /\ s.remaining_ms = timers[s.id].remaining_ms
                    /\ s.running = timers[s.id].running
                    /\ s.completed = timers[s.id].completed
              /\ timers' = timers
              /\ tasks' = tasks
              /\ emitted' = << >>
        /\ DOMAIN timers' # DOMAIN timers =>
              /\ ret'.op \in { "create_timer", "delete_timer" }
              /\ ret'.result = Ok ]_vars

\* get_all_timers has returned the snapshot of a timer that a scheduler
\* task has completed
C10_Witness ==
    /\ ret.op = "get_all_timers"
    /\ \E s \in ret.value : s.completed

\* C11: resume_timer(id) on a record that is running returns Ok and changes
\* nothing: the record (fields, deadline, cancel sender, task handle), every
\* task and the pending calls of start_timer stay as they were, and nothing
\* is emitted; so the tasks of the id are those there were before the call.
C11_ResumeRunningIsNoOp ==
    [][ \A id \in Ids :
          (id \in DOMAIN timers /\ timers[id].running /\ ResumeCheck(id)) =>
              /\ ret' = Return("resume_timer", id, Ok, {})
              /\ timers' = timers
              /\ tasks' = tasks
              /\ resuming' = resuming
              /\ emitted' = << >>
              /\ Cardinality({ t \in Launched(id) : Live(t) })' =
                     Cardinality({ t \in Launched(id) : Live(t) }) ]_vars

\* resume_timer has returned from its no-op branch on a running timer whose
\* task is alive
C11_Witness ==
    /\ ret = Return("resume_timer", "t1", Ok, {})
    /\ emitted = << >>
    /\ "t1" \in DOMAIN timers
    /\ timers["t1"].running
    /\ timers["t1"].remaining_ms > 0
    /\ Cardinality({ t \in Launched("t1") : Live(t) }) = 1

\* C12: a tick of a run that has not been cancelled and that finds the
\* deadline of its record at or before the clock (as the first tick of a
\* timer started with remaining_ms = 0 does) writes remaining_ms = 0 and goes
\* to the completion section; the completion section of such a run emits
\* exactly one timer:done, leaves the record not running, completed, with
\* remaining_ms = 0, and ends the task; a task that has ended changes no
\* more and emits nothing, so no timer:tick follows the timer:done.
C12_ExpiredCompletesAtOnce ==
    [][ \A t \in TaskIds :
          LET id == tasks[t].id
          IN /\ ( /\ tasks[t].cancelledBy = "none"
                  /\ id \in DOMAIN timers
                  /\ IsSome(timers[id].target_at)
                  /\ timers[id].target_at[1] <= now
                  /\ TaskTick(t) ) =>
                    /\ tasks'[t].pc = "complete"
                    /\ timers'[id].remaining_ms = 0
                    /\ Len(emitted') = 1
                    /\ emitted'[1].event = "timer:tick"
                    /\ emitted'[1].remaining_ms = 0
             /\ ( /\ tasks[t].cancelledBy = "none"
                  /\ TaskComplete(t) ) =>
                    /\ Len(emitted') = 1
                    /\ emitted'[1].event = "timer:done"
                    /\ emitted'[1].timer_id = id
                    /\ id \in DOMAIN timers'
                    /\ ~ timers'[id].running
                    /\ timers'[id].completed
                    /\ timers'[id].remaining_ms = 0
                    /\ tasks'[t].pc = "done"
             /\ tasks[t].pc = "done" =>
                    /\ tasks'[t] = tasks[t]
                    /\ \A i \in DOMAIN emitted' : emitted'[i].by # t ]_vars

\* The first tick of a timer created with duration 0 has completed it: the
\* task of the run has emitted timer:done and has ended
C12_Witness ==
    /\ Len(emitted) = 1
    /\ emitted[1].event = "timer:done"
    /\ emitted[1].cancelledBy = "none"
    /\ emitted[1].found = "reached"
    /\ tasks[emitted[1].by].pc = "done"
    /\ timers[emitted[1].timer_id].duration_ms = 0
    /\ timers[emitted[1].timer_id].completed
    /\ now = 0

\* No call is left to be made and none is under way
NoFurtherCall == callsLeft = 0 /\ resuming = {}

\* C13: when a timer with remaining_ms >= 0 is running and no further
\* operation follows, then eventually the record is completed, not running, with remaining_ms = 0, a
\* timer:done for the id has been emitted and every task of the id has ended.
C13_StartedEventuallyCompletes ==
    \A id \in Ids :
        ( /\ NoFurtherCall
          /\ id \in DOMAIN timers
          /\ timers[id].running
          /\ timers[id].duration_ms >= 0 )
        ~> ( /\ id \in DOMAIN timers
             /\ timers[id].completed
             /\ ~ timers[id].running
             /\ timers[id].remaining_ms = 0
             /\ done[id] > 0
             /\ \A t \in Launched(id) : tasks[t].pc = "done" )

\* C14: between critical sections, a record (of a duration >= 0) with
\* completed = true is not running and has remaining_ms = 0.
C14_CompletedMeansStoppedAtZero ==
    \A id \in DOMAIN timers :
        (timers[id].completed /\ timers[id].duration_ms >= 0) =>
            /\ ~ timers[id].running
            /\ timers[id].remaining_ms = 0

\* C15: between critical sections, every record has a target_at exactly
\* when it is running.
C15_TargetIffRunning ==
    \A id \in DOMAIN timers : IsSome(timers[id].target_at) <=> timers[id].running

\* A completion section has run on a record that a later start_timer had
\* set running again: the record is stopped, without deadline, while the
\* task of its last run is still alive
C15_Witness ==
    \E id \in DOMAIN timers :
        /\ timers[id].completed
        /\ ~ timers[id].running
        /\ timers[id].target_at = None
        /\ IsSome(timers[id].runner)
        /\ Live(timers[id].runner[1])
        /\ Len(emitted) = 1
        /\ emitted[1].event = "timer:done"
        /\ emitted[1].by # timers[id].runner[1]

\* C16: no notification is handed to the sink while the registry lock is
\* held: at every emit of start_timer, pause_timer, reset_timer and of the
\* two critical sections of a tick the lock guard has been dropped.
C16_EmitAfterUnlock ==
    \A i \in DOMAIN emitted : emitted[i].guard = "none"

\* C17: when resume_timer goes on to start a timer that is not running and
\* has remaining_ms <= 0 (here: a timer of a duration > 0 that has completed
\* after its duration has passed and whose tasks have all ended), the
\* deadline it sets is now + duration_ms.
C17_ResumeFallsBackToDuration ==
    [][ \A id \in Ids :
          ( /\ id \in DOMAIN timers
            /\ ~ timers[id].running
            /\ timers[id].completed
            /\ timers[id].remaining_ms <= 0
            /\ timers[id].duration_ms > 0
            /\ now >= timers[id].duration_ms
            /\ \A t \in Launched(id) : ~ Live(t)
            /\ ResumeStart(id) ) =>
              timers'[id].target_at = Some(now + timers[id].duration_ms) ]_vars

\* C18: pause and resume preserve the time a timer has still to run: the
\* deadline that an effective resume_timer sets is the clock plus the value
\* the pause had stored, so for a timer of a duration >= 0 it is never
\* earlier than the creation of the timer plus its duration (the clock time
\* passed since then bounds the time the timer has run).
C18_PauseResumePreservesRemaining ==
    ( /\ ret.op = "resume_timer"
      /\ ret.result = Ok
      /\ Len(emitted) = 1
      /\ ret.id \in DOMAIN timers
      /\ timers[ret.id].duration_ms >= 0 ) =>
        /\ IsSome(timers[ret.id].target_at)
        /\ timers[ret.id].target_at[1] >=
              timers[ret.id].created_at + timers[ret.id].duration_ms

\* C19: every tick of a task writes remaining_ms = max(0, target_at - now),
\* with target_at the deadline the record holds from its most recent start,
\* and the timer:tick it emits carries that value (stated for timers of a
\* duration >= 0).
C19_TickDerivesFromDeadline ==
    \A i \in DOMAIN emitted :
        ( /\ emitted[i].event = "timer:tick"
          /\ emitted[i].by # 0
          /\ emitted[i].duration_ms >= 0 ) =>
            LET timer == timers[emitted[i].timer_id]
            IN /\ IsSome(timer.target_at)
               /\ timer.remaining_ms = Max(0, timer.target_at[1] - now)
               /\ emitted[i].remaining_ms = timer.remaining_ms

\* What a step leaves alone of timer id b: its record (deadline, cancel
\* sender and task handle are fields of it), its presence, its tasks and its
\* pending start, and no notification carries its id
Untouched(b) ==
    /\ (b \in DOMAIN timers') <=> (b \in DOMAIN timers)
    /\ b \in DOMAIN timers => timers'[b] = timers[b]
    /\ \A t \in Launched(b) : tasks'[t] = tasks[t]
    /\ (b \in resuming') <=> (b \in resuming)
    /\ done'[b] = done[b]
    /\ \A i \in DOMAIN emitted' : emitted'[i].timer_id # b

\* The step is of timer id a: an operation called with a returns, a
\* resume_timer of a leaves its first block, or a task launched for a moves
StepOf(a) ==
    \/ ret'.id = a
    \/ a \in resuming' \ resuming
    \/ /\ ret' = NoCall
       /\ \E t \in Launched(a) : tasks'[t].pc # tasks[t].pc

\* C20: start, pause, resume, reset and delete on a timer id a, and every
\* step of a task launched for a, leave every other id b untouched.
C20_IdsAreIndependent ==
    [][ \A a \in Ids : \A b \in Ids \ {a} : StepOf(a) => Untouched(b) ]_vars

\* An operation has cancelled the running timer of one id (a tick of its
\* task in flight) while the timer of another id is running with its task
\* alive
C20_Witness ==
    /\ ret.op \in { "pause_timer", "reset_timer", "delete_timer" }
    /\ ret.result = Ok
    /\ \E t \in Launched(ret.id) : tasks[t].cancelledBy = ret.op
    /\ \E b \in DOMAIN timers \ {ret.id} :
          /\ timers[b].running
          /\ \E u \in Launched(b) : Live(u) /\ tasks[u].cancelledBy = "none"

\* C21: for a timer created with a negative duration, a start_timer that
\* finds remaining_ms < 0 returns Ok and sets the deadline to the clock plus
\* the value wrapped to unsigned (far ahead); a tick of the run, not
\* cancelled, takes the remaining time as <= 0, writes and emits
\* remaining_ms = 0 and goes to the completion section without ever going
\* round the loop; the completion leaves the record completed, not running,
\* with remaining_ms = 0, emits the timer:done and ends the task.
C21_NegativeDurationCompletesAtOnce ==
    /\ ( /\ ret.op = "start_timer"
         /\ ret.id \in DOMAIN timers
         /\ timers[ret.id].duration_ms < 0
         /\ timers[ret.id].remaining_ms < 0 ) =>
           /\ ret.result = Ok
           /\ timers[ret.id].running
           /\ timers[ret.id].target_at =
                 Some(now + Modulus + timers[ret.id].remaining_ms)
           /\ timers[ret.id].target_at[1] - now >= Modulus \div 2
           /\ emitted = << TimerTickPayload(timers[ret.id], 0, "none", "none") >>
    /\ \A t \in TaskIds :
          ( /\ tasks[t].cancelledBy = "none"
            /\ Live(t)
            /\ tasks[t].id \in DOMAIN timers
            /\ timers[tasks[t].id].duration_ms < 0 ) =>
              /\ tasks[t].pc \in { "wait", "tick", "complete" }
              /\ tasks[t].pc = "wait" => tasks[t].deadline = None
              /\ tasks[t].pc = "complete" =>
                    timers[tasks[t].id].remaining_ms = 0
    /\ \A i \in DOMAIN emitted :
          ( /\ emitted[i].by # 0
            /\ emitted[i].cancelledBy = "none"
            /\ emitted[i].timer_id \in DOMAIN timers
            /\ timers[emitted[i].timer_id].duration_ms < 0 ) =>
              IF emitted[i].event = "timer:tick"
              THEN /\ emitted[i].remaining_ms = 0
                   /\ tasks[emitted[i].by].pc = "complete"
              ELSE /\ timers[emitted[i].timer_id].completed
                   /\ ~ timers[emitted[i].timer_id].running
                   /\ timers[emitted[i].timer_id].remaining_ms = 0
                   /\ tasks[emitted[i].by].pc = "done"
                   /\ Len(emitted) = 1

\* The first run of a timer created with a negative duration has ended on
\* its first tick, taken after the clock has moved on: one timer:done, the
\* record completed with remaining_ms = 0
C21_Witness ==
    /\ Len(emitted) = 1
    /\ emitted[1].event = "timer:done"
    /\ emitted[1].cancelledBy = "none"
    /\ emitted[1].found = "reached"
    /\ emitted[1].timer_id \in DOMAIN timers
    /\ timers[emitted[1].timer_id].duration_ms < 0
    /\ timers[emitted[1].timer_id].completed
    /\ timers[emitted[1].timer_id].remaining_ms = 0
    /\ done[emitted[1].timer_id] = 1
    /\ Len(tasks) = 1
    /\ now > 0
====
